---- MODULE Spec2Model ----
(***************************************************************************)
(* Model of the UAE donations preprocessing pipeline (preprocess_data.py): *)
(* the Hijri event classification, the cached category translation and     *)
(* process_donation_data, the batch run that cleans, enriches, translates  *)
(* and saves the donation records.                                         *)
(*                                                                         *)
(* Optional values (pandas NaN / NaT / Python None) are sequences of       *)
(* length at most one: <<>> is absent, <<v>> is the value v.               *)
(***************************************************************************)
EXTENDS Integers, Sequences, FiniteSets, TLC

VARIABLES
    pc,                 \* position of process_donation_data / of the harness
    input_exists,       \* whether INPUT_FILE exists on disk
    raw,                \* the rows of INPUT_FILE
    df,                 \* the dataframe, a sequence of rows carrying their index label
    removed,            \* before_clean - after_clean, the reported count of invalid records
    batch_size,         \* batch_size of the enrichment loop
    batch_i,            \* the loop variable i of the batch loop
    hijri_data,         \* the list of per-row Hijri dictionaries
    union_sorted,       \* whether the installed pandas sorts the index union of concat
    translation_cache,  \* the dict translation_cache
    unique_types,       \* df['donationtype'].unique()
    type_idx,           \* how many entries of unique_types the loop has visited
    remote_log,         \* every call of translator.translate: [text, ok, slept]
    last_call,          \* the latest translate_text call: its argument, result and cache before
    out_file,           \* the rows of OUTPUT_FILE, <<>> wrapped: absent until saved
    fn_in,              \* input of the classification functions (a Gregorian date)
    fn_out              \* their output

vars == <<pc, input_exists, raw, df, removed, batch_size, batch_i, hijri_data,
          union_sorted, translation_cache, unique_types, type_idx, remote_log,
          last_call, out_file, fn_in, fn_out>>

None == <<>>
Some(v) == <<v>>
IsSome(o) == o # <<>>
Val(o) == o[1]

(***************************************************************************)
(* Bounds of the model.  The code fixes batch_size at 10000; the model     *)
(* runs the batch loop with every batch size in 1..MaxBatchSize on inputs  *)
(* of at most MaxRows rows.                                                *)
(***************************************************************************)
MaxRows == 3
MaxBatchSize == 2
MaxCalls == 4

(***************************************************************************)
(* HIJRI CALENDAR FUNCTIONS                                                *)
(***************************************************************************)

\* A Gregorian date carries its year and what hijri_converter answers for it:
\* lib = <<h>> when Gregorian(...).to_hijri() returns h, <<>> when it raises.
LibToHijri(gregorian_date) == gregorian_date.lib

get_hijri_date(gregorian_date) ==
    IF IsSome(LibToHijri(gregorian_date))
    THEN LibToHijri(gregorian_date)
    ELSE None

is_ramadan(gregorian_date) ==
    LET hijri == get_hijri_date(gregorian_date)
    IN  IF IsSome(hijri) THEN Val(hijri).month = 9 ELSE FALSE

HijriMonthNames ==
    <<"Muharram", "Safar", "Rabi al-Awwal", "Rabi al-Thani",
      "Jumada al-Awwal", "Jumada al-Thani", "Rajab", "Shaban",
      "Ramadan", "Shawwal", "Dhul Qadah", "Dhul Hijjah">>

get_hijri_month_name(month_num) ==
    IF month_num \in 1..12 THEN HijriMonthNames[month_num] ELSE "Unknown"

\* The label of the Ramadan branch (lines 59-64): an if / elif / else on the day.
RamadanEventLabel(h) ==
    IF 1 <= h.day /\ h.day <= 10 THEN "Ramadan (First 10 Days)"
    ELSE IF 11 <= h.day /\ h.day <= 20 THEN "Ramadan (Middle 10 Days)"
    ELSE "Ramadan (Last 10 Days)"

\* Variant of EventRuleCond: the Eid al-Fitr rule forgets to pin the month to 10.
EidFitrCondLoose(r, h) ==
    CASE r = 1 -> h.month = 9
      [] r = 2 -> h.month \in {9, 10} /\ h.day <= 3
      [] r = 3 -> h.month = 12 /\ 8 <= h.day /\ h.day <= 13
      [] r = 4 -> h.month = 1 /\ h.day = 10
      [] r = 5 -> h.month = 3 /\ h.day = 12

\* The conditions of the if / elif chain of identify_islamic_events, in the
\* order the code tries them, and the label each one returns.
EventRuleCond(r, h) ==
    CASE r = 1 -> h.month = 9
      [] r = 2 -> h.month = 10 /\ h.day <= 3
      [] r = 3 -> h.month = 12 /\ 8 <= h.day /\ h.day <= 13
      [] r = 4 -> h.month = 1 /\ h.day = 10
      [] r = 5 -> h.month = 3 /\ h.day = 12

EventRuleLabel(r, h) ==
    CASE r = 1 -> RamadanEventLabel(h)
      [] r = 2 -> "Eid al-Fitr"
      [] r = 3 -> "Hajj & Eid al-Adha"
      [] r = 4 -> "Day of Ashura"
      [] r = 5 -> "Mawlid al-Nabi"

EventRuleOrder == <<1, 2, 3, 4, 5>>

\* An if / elif chain over the rules in the given order: the first rule whose
\* condition holds returns its label; falling through returns None.
RECURSIVE FirstMatch(_, _)
FirstMatch(order, h) ==
    IF order = <<>> THEN None
    ELSE IF EventRuleCond(Head(order), h) THEN Some(EventRuleLabel(Head(order), h))
    ELSE FirstMatch(Tail(order), h)

\* Variant of identify_islamic_events: the Hajj window starts at day 9.
HajjFromDay9(gregorian_date) ==
    LET hijri == get_hijri_date(gregorian_date)
    IN  IF ~IsSome(hijri) THEN None
        ELSE IF Val(hijri).month = 12 /\ Val(hijri).day = 8 THEN None
        ELSE FirstMatch(EventRuleOrder, Val(hijri))

identify_islamic_events(gregorian_date) ==
    LET hijri == get_hijri_date(gregorian_date)
    IN  IF ~IsSome(hijri) THEN None
        ELSE FirstMatch(EventRuleOrder, Val(hijri))

\* Variant of get_ramadan_period: the first window ends before day 10.
PeriodOffByOne(gregorian_date) ==
    LET hijri == get_hijri_date(gregorian_date)
    IN  IF ~IsSome(hijri) \/ Val(hijri).month # 9 THEN None
        ELSE IF 1 <= Val(hijri).day /\ Val(hijri).day < 10 THEN Some("First 10 Days")
        ELSE IF 11 <= Val(hijri).day /\ Val(hijri).day <= 20 THEN Some("Middle 10 Days")
        ELSE Some("Last 10 Days")

get_ramadan_period(gregorian_date) ==
    LET hijri == get_hijri_date(gregorian_date)
    IN  IF ~IsSome(hijri) \/ Val(hijri).month # 9 THEN None
        ELSE IF 1 <= Val(hijri).day /\ Val(hijri).day <= 10 THEN Some("First 10 Days")
        ELSE IF 11 <= Val(hijri).day /\ Val(hijri).day <= 20 THEN Some("Middle 10 Days")
        ELSE Some("Last 10 Days")

\* The dictionary the enrichment loop appends for one row (lines 198-220).
NoHijriRow ==
    [hijri_year |-> None, hijri_month |-> None, hijri_day |-> None,
     hijri_month_name |-> None, is_ramadan |-> Some(FALSE),
     islamic_event |-> None, ramadan_period |-> None]

HijriRow(date) ==
    LET hijri == get_hijri_date(date)
    IN  IF IsSome(hijri)
        THEN [hijri_year |-> Some(Val(hijri).year),
              hijri_month |-> Some(Val(hijri).month),
              hijri_day |-> Some(Val(hijri).day),
              hijri_month_name |-> Some(get_hijri_month_name(Val(hijri).month)),
              is_ramadan |-> Some(Val(hijri).month = 9),
              islamic_event |-> identify_islamic_events(date),
              ramadan_period |-> IF Val(hijri).month = 9
                                 THEN get_ramadan_period(date) ELSE None]
        ELSE NoHijriRow

(***************************************************************************)
(* TRANSLATION FUNCTIONS                                                   *)
(***************************************************************************)

\* The seeded dictionary of common donation types (two of its entries).
create_translation_cache ==
    [t \in {"zakat al-mal", "siqya al-ma"} |->
        IF t = "zakat al-mal" THEN "Zakat al-Mal" ELSE "Water Supply"]

\* What translator.translate(text) may do: raise (<<>>) or return a string.
RemoteOutcomes == {None, Some("en1"), Some("en2")}

\* pd.isna(text) or text == ''
IsBlank(text) == ~IsSome(text) \/ Val(text) = ""

\* Variant of TT_CallsRemote: the cache is not consulted.
TT_CallsRemoteNoLookup(text, cache) == ~IsBlank(text)

\* Whether translate_text reaches translator.translate (line 126).
TT_CallsRemote(text, cache) == ~IsBlank(text) /\ Val(text) \notin DOMAIN cache

\* The value translate_text returns.
TT_Result(text, remote, cache) ==
    IF IsBlank(text) THEN None
    ELSE IF Val(text) \in DOMAIN cache THEN Some(cache[Val(text)])
    ELSE IF IsSome(remote) THEN remote
    ELSE text

\* translation_cache after translate_text.
\* Variant of TT_Cache: a failed remote call stores the untranslated text.
TT_CacheNegative(text, remote, cache) ==
    IF IsBlank(text) THEN cache
    ELSE IF Val(text) \in DOMAIN cache THEN cache
    ELSE [t \in DOMAIN cache \cup {Val(text)} |->
             IF t = Val(text)
             THEN (IF IsSome(remote) THEN Val(remote) ELSE Val(text))
             ELSE cache[t]]

\* Variant of TT_Cache: a stored translation replaces the entries held so far.
TT_CacheEvicting(text, remote, cache) ==
    IF IsBlank(text) THEN cache
    ELSE IF Val(text) \in DOMAIN cache THEN cache
    ELSE IF IsSome(remote)
         THEN [t \in {Val(text)} |-> Val(remote)]
         ELSE cache

TT_Cache(text, remote, cache) ==
    IF IsBlank(text) THEN cache
    ELSE IF Val(text) \in DOMAIN cache THEN cache
    ELSE IF IsSome(remote)
         THEN [t \in DOMAIN cache \cup {Val(text)} |->
                  IF t = Val(text) THEN Val(remote) ELSE cache[t]]
         ELSE cache

\* The calls of translator.translate that translate_text adds to the log:
\* time.sleep(0.1) follows only a call that returned.
TT_Log(text, remote, cache, log) ==
    IF TT_CallsRemote(text, cache)
    THEN Append(log, [text |-> Val(text), ok |-> IsSome(remote), slept |-> IsSome(remote)])
    ELSE log

\* How many translate_text calls have been made.
CallCount == IF IsSome(last_call) THEN Val(last_call).n ELSE 0

\* One call translate_text(text, translator, translation_cache).
translate_text(text, remote) ==
    /\ translation_cache' = TT_Cache(text, remote, translation_cache)
    /\ remote_log' = TT_Log(text, remote, translation_cache, remote_log)
    /\ last_call' = Some([n |-> CallCount + 1,
                          text |-> text,
                          before |-> translation_cache,
                          remote |-> TT_CallsRemote(text, translation_cache),
                          result |-> TT_Result(text, remote, translation_cache)])

(***************************************************************************)
(* The classification functions applied to one date, and translate_text    *)
(* called repeatedly on one cache.                                         *)
(***************************************************************************)

HijriDates == [year : {1441}, month : 1..12, day : 1..30]

ClassifyDates == [year : {2020}, lib : {None} \cup {Some(h) : h \in HijriDates}]

TranslateTexts ==
    {None, Some(""), Some("zakat al-mal"), Some("kafalat yatim"), Some("bina masjid")}

Idle ==
    /\ input_exists = FALSE
    /\ raw = <<>>
    /\ df = <<>>
    /\ removed = 0
    /\ batch_size = 1
    /\ batch_i = 0
    /\ hijri_data = <<>>
    /\ union_sorted = FALSE
    /\ unique_types = <<>>
    /\ type_idx = 0
    /\ remote_log = <<>>
    /\ last_call = None
    /\ out_file = None

InitClassify ==
    /\ Idle
    /\ pc = "classify"
    /\ translation_cache = create_translation_cache
    /\ fn_in \in ClassifyDates
    /\ fn_out = None

Classify ==
    /\ pc = "classify"
    /\ pc' = "classified"
    /\ fn_out' = Some([row |-> HijriRow(fn_in),
                       is_ramadan |-> is_ramadan(fn_in),
                       islamic_event |-> identify_islamic_events(fn_in),
                       ramadan_period |-> get_ramadan_period(fn_in)])
    /\ UNCHANGED <<input_exists, raw, df, removed, batch_size, batch_i, hijri_data,
                   union_sorted, translation_cache, unique_types, type_idx,
                   remote_log, last_call, out_file, fn_in>>

NextClassify == Classify

SpecClassify == InitClassify /\ [][NextClassify]_vars

InitTranslate ==
    /\ Idle
    /\ pc = "calls"
    /\ translation_cache = create_translation_cache
    /\ fn_in = [year |-> 2020, lib |-> None]
    /\ fn_out = None

CallTranslateText ==
    /\ pc = "calls"
    /\ CallCount < MaxCalls
    /\ \E text \in TranslateTexts, remote \in RemoteOutcomes :
          translate_text(text, remote)
    /\ UNCHANGED <<pc, input_exists, raw, df, removed, batch_size, batch_i, hijri_data,
                   union_sorted, unique_types, type_idx, out_file, fn_in, fn_out>>

NextTranslate == CallTranslateText

SpecTranslate == InitTranslate /\ [][NextTranslate]_vars

(***************************************************************************)
(* MAIN PROCESSING FUNCTION: process_donation_data                         *)
(***************************************************************************)

\* Gregorian dates of the input, each with the answer of hijri_converter.
G_ramadan == [year |-> 2020, lib |-> Some([year |-> 1441, month |-> 9, day |-> 15])]
G_eid == [year |-> 2021, lib |-> Some([year |-> 1442, month |-> 10, day |-> 2])]
G_plain == [year |-> 2023, lib |-> Some([year |-> 1444, month |-> 5, day |-> 7])]
G_noconv == [year |-> 2022, lib |-> None]
G_before == [year |-> 2018, lib |-> Some([year |-> 1439, month |-> 9, day |-> 3])]
G_after == [year |-> 2025, lib |-> Some([year |-> 1446, month |-> 12, day |-> 9])]

DateCell(d) == [kind |-> "date", date |-> d]
JunkCell == [kind |-> "junk"]
NumCell(n) == [kind |-> "num", v |-> n]

RawRow(id, date, amount, type) ==
    [id |-> id, donationdate |-> date, amount |-> amount, donationtype |-> type]

\* The kinds of rows INPUT_FILE may hold.
RawRows ==
    { RawRow(1, JunkCell, NumCell(10), Some("zakat al-mal")),
      RawRow(2, DateCell(G_ramadan), JunkCell, Some("kafalat yatim")),
      RawRow(1, DateCell(G_ramadan), NumCell(-5), Some("kafalat yatim")),
      RawRow(2, DateCell(G_before), NumCell(10), Some("zakat al-mal")),
      RawRow(3, DateCell(G_after), NumCell(20), Some("bina masjid")),
      RawRow(1, DateCell(G_ramadan), NumCell(10), Some("zakat al-mal")),
      RawRow(2, DateCell(G_eid), NumCell(20), Some("kafalat yatim")),
      RawRow(3, DateCell(G_noconv), NumCell(30), None),
      RawRow(3, DateCell(G_plain), NumCell(0), Some("bina masjid")) }

\* pd.to_datetime(..., errors='coerce') and pd.to_numeric(..., errors='coerce')
to_datetime(cell) == IF cell.kind = "date" THEN Some(cell.date) ELSE None
to_numeric(cell) == IF cell.kind = "num" THEN Some(cell.v) ELSE None

\* pd.read_csv: the rows of the file under the index labels 0, 1, 2, ...
ReadCsv(rows) ==
    [k \in 1..Len(rows) |->
        [index |-> k - 1, id |-> Some(rows[k].id), donationdate |-> rows[k].donationdate,
         amount |-> rows[k].amount, donationtype |-> rows[k].donationtype]]

\* Lines 152-153: the two columns converted, unparseable cells becoming NaN.
Coerce(rows) ==
    [k \in 1..Len(rows) |->
        [rows[k] EXCEPT !.donationdate = to_datetime(rows[k].donationdate),
                        !.amount = to_numeric(rows[k].amount)]]

\* df.dropna(subset=['donationdate', 'amount']): the rows keep their index labels.
NotNa(r) == IsSome(r.donationdate) /\ IsSome(r.amount)
DropNa(rows) == SelectSeq(rows, NotNa)

\* Lines 163-165: the complete years 2019..2024.
InCompleteYears(r) ==
    Val(r.donationdate).year >= 2019 /\ Val(r.donationdate).year <= 2024
FilterCompleteYears(rows) == SelectSeq(rows, InCompleteYears)

Min(a, b) == IF a <= b THEN a ELSE b

\* Variant of BatchHijri: a last batch shorter than batch_size is skipped.
BatchHijriFullOnly(rows, i, size) ==
    IF i + size > Len(rows) THEN <<>>
    ELSE [k \in 1..size |-> HijriRow(Val(rows[i + k].donationdate))]

\* The Hijri dictionaries of the rows of one batch, df.iloc[i:i+batch_size].
BatchHijri(rows, i, size) ==
    [k \in 1..(Min(i + size, Len(rows)) - i) |->
        HijriRow(Val(rows[i + k].donationdate))]

RECURSIVE SortedSeq(_)
SortedSeq(S) ==
    IF S = {} THEN <<>>
    ELSE LET m == CHOOSE x \in S : \A y \in S : x <= y
         IN  <<m>> \o SortedSeq(S \ {m})

\* The index labels of pd.concat([df, hijri_df], axis=1): the union of the
\* labels of df and of the RangeIndex 0..n-1 of hijri_df.  A pandas that does
\* not sort the union keeps the labels of df first.
ConcatLabels(rows, hd, sorted) ==
    LET dfLabels == {rows[k].index : k \in 1..Len(rows)}
        hLabels == 0..(Len(hd) - 1)
    IN  IF sorted THEN SortedSeq(dfLabels \cup hLabels)
        ELSE [k \in 1..Len(rows) |-> rows[k].index] \o SortedSeq(hLabels \ dfLabels)

NaDfPart ==
    [id |-> None, donationdate |-> None, amount |-> None, donationtype |-> None]

NaHijriPart ==
    [hijri_year |-> None, hijri_month |-> None, hijri_day |-> None,
     hijri_month_name |-> None, is_ramadan |-> None,
     islamic_event |-> None, ramadan_period |-> None]

\* One row of the concatenation: the columns of the df row carrying the label
\* and the columns of the hijri_df row carrying the label, NaN where there is none.
ConcatRow(rows, hd, label) ==
    LET hits == {k \in 1..Len(rows) : rows[k].index = label}
        d == IF hits = {} THEN NaDfPart ELSE rows[CHOOSE k \in hits : TRUE]
        h == IF label < Len(hd) THEN hd[label + 1] ELSE NaHijriPart
    IN  [index |-> label, id |-> d.id, donationdate |-> d.donationdate,
         amount |-> d.amount, donationtype |-> d.donationtype,
         hijri_year |-> h.hijri_year, hijri_month |-> h.hijri_month,
         hijri_day |-> h.hijri_day, hijri_month_name |-> h.hijri_month_name,
         is_ramadan |-> h.is_ramadan, islamic_event |-> h.islamic_event,
         ramadan_period |-> h.ramadan_period]

\* pd.concat([df, hijri_df], axis=1)
ConcatAxis1(rows, hd, sorted) ==
    LET labels == ConcatLabels(rows, hd, sorted)
    IN  [k \in 1..Len(labels) |-> ConcatRow(rows, hd, labels[k])]

\* Variant of Unique: the column itself, repeated values kept.
UniqueNoDedup(rows, seen) == [k \in 1..Len(rows) |-> rows[k].donationtype]

\* df['donationtype'].unique(): the values in order of first appearance, NaN included.
RECURSIVE Unique(_, _)
Unique(rows, seen) ==
    IF rows = <<>> THEN <<>>
    ELSE IF Head(rows).donationtype \in seen THEN Unique(Tail(rows), seen)
    ELSE <<Head(rows).donationtype>> \o
         Unique(Tail(rows), seen \cup {Head(rows).donationtype})

\* Variant of OutputRow: translation_cache.get(x) without the default.
OutputRowNoFallback(r, cache) ==
    [id |-> r.id, donationdate |-> r.donationdate, amount |-> r.amount,
     donationtype |-> r.donationtype,
     donationtype_en |-> IF IsSome(r.donationtype)
                         THEN IF Val(r.donationtype) \in DOMAIN cache
                              THEN Some(cache[Val(r.donationtype)])
                              ELSE None
                         ELSE None,
     hijri_year |-> r.hijri_year, hijri_month |-> r.hijri_month,
     hijri_day |-> r.hijri_day, hijri_month_name |-> r.hijri_month_name,
     is_ramadan |-> r.is_ramadan, ramadan_period |-> r.ramadan_period,
     islamic_event |-> r.islamic_event]

\* Lines 251-253 and 264: the translated column, then the columns of the file.
OutputRow(r, cache) ==
    [id |-> r.id, donationdate |-> r.donationdate, amount |-> r.amount,
     donationtype |-> r.donationtype,
     donationtype_en |-> IF IsSome(r.donationtype)
                         THEN IF Val(r.donationtype) \in DOMAIN cache
                              THEN Some(cache[Val(r.donationtype)])
                              ELSE r.donationtype
                         ELSE None,
     hijri_year |-> r.hijri_year, hijri_month |-> r.hijri_month,
     hijri_day |-> r.hijri_day, hijri_month_name |-> r.hijri_month_name,
     is_ramadan |-> r.is_ramadan, ramadan_period |-> r.ramadan_period,
     islamic_event |-> r.islamic_event]

RawInputs == UNION {[1..n -> RawRows] : n \in 0..MaxRows}

Init ==
    /\ pc = "start"
    /\ input_exists \in BOOLEAN
    /\ raw \in (IF input_exists THEN RawInputs ELSE {<<>>})
    /\ df = <<>>
    /\ removed = 0
    /\ batch_size \in 1..MaxBatchSize
    /\ batch_i = 0
    /\ hijri_data = <<>>
    /\ union_sorted \in BOOLEAN
    /\ translation_cache = <<>>
    /\ unique_types = <<>>
    /\ type_idx = 0
    /\ remote_log = <<>>
    /\ last_call = None
    /\ out_file = None
    /\ fn_in = [year |-> 2020, lib |-> None]
    /\ fn_out = None

\* Lines 145-148: pd.read_csv raises when INPUT_FILE is missing; the exception
\* leaves process_donation_data and is printed by the main block.
Load ==
    /\ pc = "start"
    /\ IF input_exists
       THEN /\ df' = ReadCsv(raw)
            /\ pc' = "loaded"
       ELSE /\ df' = df
            /\ pc' = "error"
    /\ UNCHANGED <<input_exists, raw, removed, batch_size, batch_i, hijri_data,
                   union_sorted, translation_cache, unique_types, type_idx,
                   remote_log, last_call, out_file, fn_in, fn_out>>

\* Lines 150-160
Clean ==
    /\ pc = "loaded"
    /\ df' = DropNa(Coerce(df))
    /\ removed' = Len(df) - Len(df')
    /\ pc' = "cleaned"
    /\ UNCHANGED <<input_exists, raw, batch_size, batch_i, hijri_data,
                   union_sorted, translation_cache, unique_types, type_idx,
                   remote_log, last_call, out_file, fn_in, fn_out>>

\* Lines 162-191
FilterYears ==
    /\ pc = "cleaned"
    /\ df' = FilterCompleteYears(df)
    /\ batch_i' = 0
    /\ hijri_data' = <<>>
    /\ pc' = "enrich"
    /\ UNCHANGED <<input_exists, raw, removed, batch_size,
                   union_sorted, translation_cache, unique_types, type_idx,
                   remote_log, last_call, out_file, fn_in, fn_out>>

\* Lines 192-220: one iteration of the batch loop.
EnrichBatch ==
    /\ pc = "enrich"
    /\ batch_i < Len(df)
    /\ hijri_data' = hijri_data \o BatchHijri(df, batch_i, batch_size)
    /\ batch_i' = batch_i + batch_size
    /\ UNCHANGED <<pc, input_exists, raw, df, removed, batch_size,
                   union_sorted, translation_cache, unique_types, type_idx,
                   remote_log, last_call, out_file, fn_in, fn_out>>

\* Lines 222-240: the concatenation, the Ramadan count and the set-up of the
\* translation.  With no row left hijri_df has no column and df['is_ramadan']
\* raises KeyError.
Concat ==
    /\ pc = "enrich"
    /\ batch_i >= Len(df)
    /\ IF Len(df) = 0
       THEN /\ pc' = "error"
            /\ UNCHANGED <<df, translation_cache, unique_types, type_idx>>
       ELSE /\ df' = ConcatAxis1(df, hijri_data, union_sorted)
            /\ translation_cache' = create_translation_cache
            /\ unique_types' = Unique(df', {})
            /\ type_idx' = 0
            /\ pc' = "translate"
    /\ UNCHANGED <<input_exists, raw, removed, batch_size, batch_i, hijri_data,
                   union_sorted, remote_log, last_call, out_file, fn_in, fn_out>>

\* Lines 243-246: one iteration of the loop over unique_types.
TranslateType ==
    /\ pc = "translate"
    /\ type_idx < Len(unique_types)
    /\ type_idx' = type_idx + 1
    /\ IF IsSome(unique_types[type_idx + 1])
       THEN \E remote \in RemoteOutcomes :
               translate_text(unique_types[type_idx + 1], remote)
       ELSE UNCHANGED <<translation_cache, remote_log, last_call>>
    /\ UNCHANGED <<pc, input_exists, raw, df, removed, batch_size, batch_i, hijri_data,
                   union_sorted, unique_types, out_file, fn_in, fn_out>>

\* Variant of Save: the file is written before the loop over unique_types ends.
SaveEarly ==
    /\ pc = "translate"
    /\ out_file' = Some([k \in 1..Len(df) |-> OutputRow(df[k], translation_cache)])
    /\ pc' = "saved"
    /\ UNCHANGED <<input_exists, raw, df, removed, batch_size, batch_i, hijri_data,
                   union_sorted, translation_cache, unique_types, type_idx,
                   remote_log, last_call, fn_in, fn_out>>

\* Lines 248-270
Save ==
    /\ pc = "translate"
    /\ type_idx >= Len(unique_types)
    /\ out_file' = Some([k \in 1..Len(df) |-> OutputRow(df[k], translation_cache)])
    /\ pc' = "saved"
    /\ UNCHANGED <<input_exists, raw, df, removed, batch_size, batch_i, hijri_data,
                   union_sorted, translation_cache, unique_types, type_idx,
                   remote_log, last_call, fn_in, fn_out>>

\* Lines 272-296
Summary ==
    /\ pc = "saved"
    /\ pc' = "done"
    /\ UNCHANGED <<input_exists, raw, df, removed, batch_size, batch_i, hijri_data,
                   union_sorted, translation_cache, unique_types, type_idx,
                   remote_log, last_call, out_file, fn_in, fn_out>>

Next ==
    \/ Load
    \/ Clean
    \/ FilterYears
    \/ EnrichBatch
    \/ Concat
    \/ TranslateType
    \/ Save
    \/ Summary

Spec == Init /\ [][Next]_vars

(***************************************************************************)
(* METRICS: metrics_service.py and the copies of its functions in          *)
(* dashboard_app.py.  A number is an exact fraction n/d in lowest terms    *)
(* or NaN; floating-point rounding is not modelled.                        *)
(***************************************************************************)

MaxRecs == 3
MaxCompareRecs == 2

Abs(x) == IF x < 0 THEN -x ELSE x

RECURSIVE GCD(_, _)
GCD(a, b) == IF b = 0 THEN a ELSE GCD(b, a % b)

NaN == [nan |-> TRUE, n |-> 0, d |-> 1]

\* The number n/d, d # 0.
Rat(n, d) ==
    LET g == GCD(Abs(n), Abs(d))
        sgn == IF d < 0 THEN -1 ELSE 1
    IN  [nan |-> FALSE, n |-> sgn * (n \div g), d |-> sgn * (d \div g)]

Num(n) == Rat(n, 1)
Zero == Num(0)

\* Float arithmetic: NaN propagates; a comparison with NaN is False.
RSub(a, b) == IF a.nan \/ b.nan THEN NaN ELSE Rat(a.n * b.d - b.n * a.d, a.d * b.d)
RMul(a, b) == IF a.nan \/ b.nan THEN NaN ELSE Rat(a.n * b.n, a.d * b.d)
RDiv(a, b) == IF a.nan \/ b.nan THEN NaN ELSE Rat(a.n * b.d, a.d * b.n)
RPositive(a) == ~a.nan /\ a.n > 0
RIsZero(a) == ~a.nan /\ a.n = 0

\* The records of a loaded dataframe: donor id, amount, category, the
\* is_ramadan cell (NaN on rows that found no Hijri row) and the calendar
\* period of donationdate.
MetricRec(id, amount, type, ram, year, month) ==
    [id |-> id, amount |-> amount, donationtype |-> type, is_ramadan |-> ram,
     year |-> year, month |-> month]

MetricRecords ==
    { MetricRec(Some(1), 500, Some("zakat al-mal"), Some(TRUE), 2020, 4),
      MetricRec(Some(1), 750, Some("kafalat yatim"), Some(FALSE), 2020, 5),
      MetricRec(Some(2), 0, Some("zakat al-mal"), Some(FALSE), 2021, 5),
      MetricRec(Some(2), -500, Some("kafalat yatim"), Some(TRUE), 2020, 4),
      MetricRec(None, 750, None, None, 2021, 6),
      MetricRec(Some(3), 500, Some("bina masjid"), Some(FALSE), 2020, 5) }

\* Dataframes of at most n records.
Frames(n) == UNION {[1..k -> MetricRecords] : k \in 0..n}

RECURSIVE SumAmount(_)
SumAmount(rows) ==
    IF rows = <<>> THEN 0 ELSE Head(rows).amount + SumAmount(Tail(rows))

RECURSIVE SumSquares(_)
SumSquares(rows) ==
    IF rows = <<>> THEN 0
    ELSE Head(rows).amount * Head(rows).amount + SumSquares(Tail(rows))

\* Series.mean(): NaN for an empty series.
MeanAmount(rows) == IF rows = <<>> THEN NaN ELSE Rat(SumAmount(rows), Len(rows))

\* The values in ascending order.
RECURSIVE SortInts(_)
SortInts(v) ==
    IF v = <<>> THEN <<>>
    ELSE LET x == Head(v)
             rest == SortInts(Tail(v))
         IN  SelectSeq(rest, LAMBDA y : y <= x) \o <<x>> \o SelectSeq(rest, LAMBDA y : y > x)

\* Series.median(): NaN for an empty series.
Median(values) ==
    LET v == SortInts(values)
        n == Len(v)
    IN  IF n = 0 THEN NaN
        ELSE IF n % 2 = 1 THEN Num(v[(n + 1) \div 2])
        ELSE Rat(v[n \div 2] + v[n \div 2 + 1], 2)

Amounts(rows) == [k \in 1..Len(rows) |-> rows[k].amount]

MedianAmount(rows) == Median(Amounts(rows))

\* Series.std() is the square root of the sample variance (ddof = 1), NaN for
\* fewer than two values.  The model keeps the variance in its place.
StdAmountSquared(rows) ==
    LET n == Len(rows)
    IN  IF n < 2 THEN NaN
        ELSE Rat(n * SumSquares(rows) - SumAmount(rows) * SumAmount(rows), n * (n - 1))

MaxAmount(rows) ==
    IF rows = <<>> THEN NaN
    ELSE Num(CHOOSE x \in {rows[k].amount : k \in 1..Len(rows)} :
                \A k \in 1..Len(rows) : rows[k].amount <= x)

MinAmount(rows) ==
    IF rows = <<>> THEN NaN
    ELSE Num(CHOOSE x \in {rows[k].amount : k \in 1..Len(rows)} :
                \A k \in 1..Len(rows) : x <= rows[k].amount)

\* Series.nunique(): NaN is not counted.
NUniqueTypes(rows) ==
    Cardinality({rows[k].donationtype : k \in 1..Len(rows)} \ {None})
NUniqueIds(rows) == Cardinality({rows[k].id : k \in 1..Len(rows)} \ {None})

\* df[df['is_ramadan'] == True] and df[df['is_ramadan'] == False]
RamadanRows(rows) == SelectSeq(rows, LAMBDA r : r.is_ramadan = Some(TRUE))
NonRamadanRows(rows) == SelectSeq(rows, LAMBDA r : r.is_ramadan = Some(FALSE))

\* _empty_kpis()
EmptyKpis ==
    [total_donations |-> Zero, total_amount |-> Zero, avg_donation |-> Zero,
     median_donation |-> Zero, std_donation |-> Zero, unique_donors |-> Zero,
     unique_types |-> Zero, ramadan_donations |-> Zero, ramadan_amount |-> Zero,
     ramadan_percentage |-> Zero, ramadan_avg |-> Zero, non_ramadan_avg |-> Zero,
     max_donation |-> Zero, min_donation |-> Zero]

\* metrics_service.calculate_kpis
calculate_kpis(rows) ==
    IF rows = <<>> THEN EmptyKpis
    ELSE LET ramadan_df == RamadanRows(rows)
             non_ramadan_df == NonRamadanRows(rows)
         IN  [total_donations |-> Num(Len(rows)),
              total_amount |-> Num(SumAmount(rows)),
              avg_donation |-> MeanAmount(rows),
              median_donation |-> MedianAmount(rows),
              std_donation |-> StdAmountSquared(rows),
              unique_donors |-> Num(NUniqueIds(rows)),
              unique_types |-> Num(NUniqueTypes(rows)),
              ramadan_donations |-> Num(Len(ramadan_df)),
              ramadan_amount |-> IF Len(ramadan_df) > 0
                                 THEN Num(SumAmount(ramadan_df)) ELSE Zero,
              ramadan_percentage |-> IF Len(rows) > 0
                                     THEN Rat(Len(ramadan_df) * 100, Len(rows)) ELSE Zero,
              ramadan_avg |-> IF Len(ramadan_df) > 0 THEN MeanAmount(ramadan_df) ELSE Zero,
              non_ramadan_avg |-> IF Len(non_ramadan_df) > 0
                                  THEN MeanAmount(non_ramadan_df) ELSE Zero,
              max_donation |-> MaxAmount(rows),
              min_donation |-> MinAmount(rows)]

\* dashboard_app.calculate_kpis: no test for an empty dataframe.
dashboard_calculate_kpis(rows) ==
    LET ramadan_df == RamadanRows(rows)
        non_ramadan_df == NonRamadanRows(rows)
    IN  [total_donations |-> Num(Len(rows)),
         total_amount |-> Num(SumAmount(rows)),
         avg_donation |-> MeanAmount(rows),
         unique_donors |-> Num(NUniqueIds(rows)),
         unique_types |-> Num(NUniqueTypes(rows)),
         ramadan_donations |-> Num(Len(ramadan_df)),
         ramadan_amount |-> IF Len(ramadan_df) > 0
                            THEN Num(SumAmount(ramadan_df)) ELSE Zero,
         ramadan_percentage |-> IF Len(rows) > 0
                                THEN Rat(Len(ramadan_df) * 100, Len(rows)) ELSE Zero,
         ramadan_avg |-> IF Len(ramadan_df) > 0 THEN MeanAmount(ramadan_df) ELSE Zero,
         non_ramadan_avg |-> IF Len(non_ramadan_df) > 0
                             THEN MeanAmount(non_ramadan_df) ELSE Zero]

\* Series.dt.to_period('M') and to_period('Y')
PeriodOf(r, period) == IF period = "month" THEN <<r.year, r.month>> ELSE <<r.year, 1>>

PeriodBefore(p, q) == p[1] < q[1] \/ (p[1] = q[1] /\ p[2] < q[2])

\* groupby sorts the group keys in ascending order.
RECURSIVE SortPeriods(_)
SortPeriods(S) ==
    IF S = {} THEN <<>>
    ELSE LET m == CHOOSE p \in S : \A q \in S \ {p} : PeriodBefore(p, q)
         IN  <<m>> \o SortPeriods(S \ {m})

\* df.groupby(period)['amount'].sum()
GroupByPeriodSum(rows, period) ==
    LET keys == SortPeriods({PeriodOf(rows[k], period) : k \in 1..Len(rows)})
    IN  [i \in 1..Len(keys) |->
            SumAmount(SelectSeq(rows, LAMBDA r : PeriodOf(r, period) = keys[i]))]

\* Variant of GrowthOfGrouped: compares the first two periods.
GrowthOfFirstTwo(grouped) ==
    IF Len(grouped) < 2 THEN Zero
    ELSE LET current == grouped[2]
             previous == grouped[1]
         IN  IF previous = 0 THEN Zero
             ELSE RMul(RDiv(RSub(Num(current), Num(previous)), Num(previous)), Num(100))

\* The tail both implementations share, from len(grouped) < 2 on.
GrowthOfGrouped(grouped) ==
    IF Len(grouped) < 2 THEN Zero
    ELSE LET current == grouped[Len(grouped)]
             previous == grouped[Len(grouped) - 1]
         IN  IF previous = 0 THEN Zero
             ELSE RMul(RDiv(RSub(Num(current), Num(previous)), Num(previous)), Num(100))

GrowthPeriods == {"month", "year", "week"}

\* metrics_service.calculate_growth_rate
calculate_growth_rate(rows, period) ==
    IF rows = <<>> \/ Len(rows) < 2 THEN Zero
    ELSE IF period \in {"month", "year"} THEN GrowthOfGrouped(GroupByPeriodSum(rows, period))
    ELSE Zero

\* dashboard_app.calculate_growth_rate
dashboard_calculate_growth_rate(rows, period) ==
    IF period \in {"month", "year"} THEN GrowthOfGrouped(GroupByPeriodSum(rows, period))
    ELSE Zero

\* df.groupby('id'): the donor ids in ascending order; NaN ids form no group.
DonorIds(rows) == {Val(rows[k].id) : k \in {j \in 1..Len(rows) : IsSome(rows[j].id)}}

DonorKeys(rows) == SortInts(
    LET S == DonorIds(rows)
        RECURSIVE AsSeq(_)
        AsSeq(T) == IF T = {} THEN <<>>
                    ELSE LET x == CHOOSE y \in T : TRUE IN <<x>> \o AsSeq(T \ {x})
    IN  AsSeq(S))

\* Variant of DonorRows: every donor is given the whole dataframe.
DonorRowsAll(rows, id) == rows

DonorRows(rows, id) == SelectSeq(rows, LAMBDA r : r.id = Some(id))

\* .agg({'amount': ['sum', 'count', 'mean']}), one row per donor
donor_stats(rows) ==
    LET keys == DonorKeys(rows)
    IN  [i \in 1..Len(keys) |->
            [id |-> keys[i],
             total_amount |-> SumAmount(DonorRows(rows, keys[i])),
             donation_count |-> Len(DonorRows(rows, keys[i])),
             avg_amount |-> MeanAmount(DonorRows(rows, keys[i]))]]

MaxOf(values) ==
    IF values = <<>> THEN NaN
    ELSE Num(CHOOSE x \in {values[k] : k \in 1..Len(values)} :
                \A k \in 1..Len(values) : values[k] <= x)

\* metrics_service.calculate_donor_statistics
calculate_donor_statistics(rows) ==
    IF rows = <<>>
    THEN [total_donors |-> Zero, repeat_donors |-> Zero, one_time_donors |-> Zero,
          avg_donations_per_donor |-> Zero, top_donor_amount |-> Zero,
          top_donor_count |-> Zero]
    ELSE LET stats == donor_stats(rows)
             counts == [i \in 1..Len(stats) |-> stats[i].donation_count]
             totals == [i \in 1..Len(stats) |-> stats[i].total_amount]
             SumSeq[i \in 0..Len(counts)] == IF i = 0 THEN 0 ELSE counts[i] + SumSeq[i - 1]
         IN  [total_donors |-> Num(Len(stats)),
              repeat_donors |-> Num(Len(SelectSeq(counts, LAMBDA c : c > 1))),
              one_time_donors |-> Num(Len(SelectSeq(counts, LAMBDA c : c = 1))),
              avg_donations_per_donor |-> IF Len(counts) = 0 THEN NaN
                                          ELSE Rat(SumSeq[Len(counts)], Len(counts)),
              top_donor_amount |-> MaxOf(totals),
              top_donor_count |-> MaxOf(counts),
              median_donations_per_donor |-> Median(counts)]

\* The metrics both compare_periods implementations iterate over.
TrackedMetrics ==
    <<"total_donations", "total_amount", "avg_donation", "ramadan_donations",
      "ramadan_amount">>

\* ((val2 - val1) / val1) * 100
PercentChange(val1, val2) == RMul(RDiv(RSub(val2, val1), val1), Num(100))

\* One pass of the loop of metrics_service.compare_periods.
ServiceChange(val1, val2) ==
    [absolute |-> RSub(val2, val1),
     percentage |-> IF RPositive(val1) THEN PercentChange(val1, val2) ELSE Zero]

\* metrics_service.compare_periods
compare_periods(df1, df2, period1_label, period2_label) ==
    LET kpis1 == calculate_kpis(df1)
        kpis2 == calculate_kpis(df2)
    IN  [period1 |-> [label |-> period1_label, kpis |-> kpis1],
         period2 |-> [label |-> period2_label, kpis |-> kpis2],
         changes |-> [key \in {TrackedMetrics[i] : i \in 1..Len(TrackedMetrics)} |->
                         ServiceChange(kpis1[key], kpis2[key])]]

\* round(x * scale) to the nearest integer, ties to even, as the format
\* specifications .0f, .1f and .2f round.
RoundScaled(x, scale) ==
    LET q == (x.n * scale) \div x.d
        r == (x.n * scale) % x.d
    IN  IF 2 * r < x.d THEN q
        ELSE IF 2 * r > x.d THEN q + 1
        ELSE IF q % 2 = 0 THEN q ELSE q + 1

\* f"{x:,.0f}", f"{x:,.2f}", f"{x:+.1f}%": the text is kept as the number of
\* decimals and the rounded digits; NaN prints as "nan".
FormatFixed(x, decimals) ==
    LET scale == IF decimals = 0 THEN 1 ELSE IF decimals = 1 THEN 10 ELSE 100
    IN  IF x.nan THEN [nan |-> TRUE, decimals |-> decimals, digits |-> 0]
        ELSE [nan |-> FALSE, decimals |-> decimals, digits |-> RoundScaled(x, scale)]

\* The compare_periods callback of dashboard_app: the bar values of the two
\* periods and the rows of the comparison table.
dashboard_compare_periods(df1, df2) ==
    LET kpis1 == dashboard_calculate_kpis(df1)
        kpis2 == dashboard_calculate_kpis(df2)
        shown == SelectSeq(TrackedMetrics, LAMBDA m : RPositive(kpis1[m]))
    IN  [period1_values |-> [i \in 1..Len(TrackedMetrics) |-> kpis1[TrackedMetrics[i]]],
         period2_values |-> [i \in 1..Len(TrackedMetrics) |-> kpis2[TrackedMetrics[i]]],
         changes |-> [i \in 1..Len(shown) |->
             LET metric == shown[i]
                 val1 == kpis1[metric]
                 val2 == kpis2[metric]
                 dec == IF metric = "avg_donation" THEN 2 ELSE 0
             IN  [metric |-> metric,
                  period1 |-> FormatFixed(val1, dec),
                  period2 |-> FormatFixed(val2, dec),
                  change |-> FormatFixed(PercentChange(val1, val2), 1)]]]

(***************************************************************************)
(* Harness for the aggregators: one call on a loaded dataframe.            *)
(***************************************************************************)

InitMetrics ==
    /\ Idle
    /\ pc = "metrics"
    /\ translation_cache = create_translation_cache
    /\ fn_in \in Frames(MaxRecs)
    /\ fn_out = None

MetricsCall(name, result) ==
    /\ pc = "metrics"
    /\ pc' = name
    /\ fn_out' = Some(result)
    /\ UNCHANGED <<input_exists, raw, df, removed, batch_size, batch_i, hijri_data,
                   union_sorted, translation_cache, unique_types, type_idx,
                   remote_log, last_call, out_file, fn_in>>

ServiceKpis == MetricsCall("service_kpis", calculate_kpis(fn_in))

DashboardKpis == MetricsCall("dashboard_kpis", dashboard_calculate_kpis(fn_in))

ServiceGrowth ==
    \E period \in GrowthPeriods :
        MetricsCall("service_growth",
                    [period |-> period, rate |-> calculate_growth_rate(fn_in, period)])

DashboardGrowth ==
    \E period \in GrowthPeriods :
        MetricsCall("dashboard_growth",
                    [period |-> period, rate |-> dashboard_calculate_growth_rate(fn_in, period)])

DonorStatistics == MetricsCall("donor_statistics", calculate_donor_statistics(fn_in))

NextMetrics ==
    \/ ServiceKpis
    \/ DashboardKpis
    \/ ServiceGrowth
    \/ DashboardGrowth
    \/ DonorStatistics

SpecMetrics == InitMetrics /\ [][NextMetrics]_vars

(***************************************************************************)
(* Harness for compare_periods: one call on two dataframes.                *)
(***************************************************************************)

InitCompare ==
    /\ Idle
    /\ pc = "compare"
    /\ translation_cache = create_translation_cache
    /\ fn_in \in [df1 : Frames(MaxCompareRecs), df2 : Frames(MaxCompareRecs)]
    /\ fn_out = None

CompareCall(name, result) ==
    /\ pc = "compare"
    /\ pc' = name
    /\ fn_out' = Some(result)
    /\ UNCHANGED <<input_exists, raw, df, removed, batch_size, batch_i, hijri_data,
                   union_sorted, translation_cache, unique_types, type_idx,
                   remote_log, last_call, out_file, fn_in>>

ServiceCompare ==
    CompareCall("service_compared",
                compare_periods(fn_in.df1, fn_in.df2, "Period 1", "Period 2"))

DashboardCompare ==
    CompareCall("dashboard_compared", dashboard_compare_periods(fn_in.df1, fn_in.df2))

NextCompare == ServiceCompare \/ DashboardCompare

SpecCompare == InitCompare /\ [][NextCompare]_vars

(***************************************************************************)
(* LOAD PATH: data_service.load_data and dashboard_app.load_and_process_    *)
(* data.  The file system holds the raw file and the processed file the    *)
(* pipeline wrote from it; either may be missing, or present but not       *)
(* loadable (empty file, undecodable bytes, no donationdate column), in    *)
(* which case pandas raises.                                               *)
(***************************************************************************)

MaxFileRows == 2

\* What process_donation_data writes for the rows of a raw file when no
\* remote translation succeeds: lines 147-270 in one piece.
PipelineRows(rows) == FilterCompleteYears(DropNa(Coerce(ReadCsv(rows))))

ProcessedFileOf(rows, sorted) ==
    LET kept == PipelineRows(rows)
        joined == ConcatAxis1(kept, BatchHijri(kept, 0, Len(kept)), sorted)
    IN  [k \in 1..Len(joined) |-> OutputRow(joined[k], create_translation_cache)]

FileStates == {"missing", "unreadable", "ok"}

\* The states of the data directory.
FileSystems ==
    { fs \in [source : UNION {[1..n -> RawRows] : n \in 0..MaxFileRows},
              processed : FileStates, raw : FileStates, sorted : BOOLEAN] :
        /\ fs.processed = "ok" => PipelineRows(fs.source) # <<>>
        /\ fs.processed # "ok" => ~fs.sorted }

Message(level, about) == [level |-> level, about |-> about]

\* pd.DataFrame(): no row and no column.
EmptyFrame == [has_columns |-> FALSE, rows |-> <<>>]

Frame(rows) == [has_columns |-> TRUE, rows |-> rows]

\* Lines 65-86 of data_service.py, 80-101 of dashboard_app.py: the cleaned raw
\* rows with the Hijri columns defaulted.
FallbackRow(r) ==
    [id |-> r.id, donationdate |-> r.donationdate, amount |-> r.amount,
     donationtype |-> r.donationtype, donationtype_en |-> r.donationtype,
     is_ramadan |-> Some(FALSE), islamic_event |-> None,
     hijri_month |-> None, hijri_month_name |-> None]

FallbackRows(rows) ==
    LET kept == DropNa(Coerce(ReadCsv(rows)))
    IN  [k \in 1..Len(kept) |-> FallbackRow(kept[k])]

\* Lines 42-51 of data_service.py, 111-120 of dashboard_app.py: the rows of the
\* processed file whose donationdate parses.  A file the pipeline wrote has at
\* least one such row.
LoadedRows(fs) ==
    SelectSeq(ProcessedFileOf(fs.source, fs.sorted), LAMBDA r : IsSome(r.donationdate))

\* data_service.load_data with _load_raw_data_fallback
load_data(fs) ==
    IF fs.processed = "missing"
    THEN LET start == <<Message("warning", "processed_not_found"),
                        Message("info", "attempting_raw")>>
         IN  IF fs.raw = "ok"
             THEN [df |-> Frame(FallbackRows(fs.source)),
                   messages |-> start \o <<Message("warning", "raw_only"),
                                           Message("info", "run_preprocess")>>]
             ELSE IF fs.raw = "unreadable"
             THEN [df |-> EmptyFrame,
                   messages |-> start \o <<Message("error", "error_loading")>>]
             ELSE [df |-> EmptyFrame,
                   messages |-> start \o <<Message("error", "no_data_file"),
                                           Message("info", "run_preprocess")>>]
    ELSE IF fs.processed = "ok"
    THEN [df |-> Frame(LoadedRows(fs)), messages |-> <<>>]
    ELSE [df |-> EmptyFrame, messages |-> <<Message("error", "error_loading")>>]

\* dashboard_app.load_and_process_data: every message is printed.
load_and_process_data(fs) ==
    IF fs.processed = "missing"
    THEN LET start == <<Message("print", "processed_not_found"),
                        Message("print", "run_preprocess")>>
         IN  IF fs.raw = "ok"
             THEN [df |-> Frame(FallbackRows(fs.source)),
                   messages |-> start \o <<Message("print", "loading_raw"),
                                           Message("print", "raw_only"),
                                           Message("print", "run_preprocess")>>]
             ELSE IF fs.raw = "unreadable"
             THEN [df |-> EmptyFrame,
                   messages |-> start \o <<Message("print", "loading_raw"),
                                           Message("print", "error_loading")>>]
             ELSE [df |-> EmptyFrame,
                   messages |-> start \o <<Message("print", "error_loading")>>]
    ELSE IF fs.processed = "ok"
    THEN [df |-> Frame(LoadedRows(fs)),
          messages |-> <<Message("print", "loading_processed"),
                         Message("print", "loaded"),
                         Message("print", "ramadan_share")>>]
    ELSE [df |-> EmptyFrame,
          messages |-> <<Message("print", "loading_processed"),
                         Message("print", "error_loading")>>]

InitLoad ==
    /\ Idle
    /\ pc = "load"
    /\ translation_cache = create_translation_cache
    /\ fn_in \in FileSystems
    /\ fn_out = None

LoadCall(name, result) ==
    /\ pc = "load"
    /\ pc' = name
    /\ fn_out' = Some(result)
    /\ UNCHANGED <<input_exists, raw, df, removed, batch_size, batch_i, hijri_data,
                   union_sorted, translation_cache, unique_types, type_idx,
                   remote_log, last_call, out_file, fn_in>>

ServiceLoad == LoadCall("service_loaded", load_data(fn_in))

DashboardLoad == LoadCall("dashboard_loaded", load_and_process_data(fn_in))

NextLoad == ServiceLoad \/ DashboardLoad

SpecLoad == InitLoad /\ [][NextLoad]_vars

(***************************************************************************)
(* Properties of the classification functions (under SpecClassify).        *)
(***************************************************************************)

\* The event table of the specification, section 4.2.
TableLabel(m, d) ==
    CASE m = 9 /\ d \in 1..10 -> Some("Ramadan (First 10 Days)")
      [] m = 9 /\ d \in 11..20 -> Some("Ramadan (Middle 10 Days)")
      [] m = 9 /\ d \in 21..30 -> Some("Ramadan (Last 10 Days)")
      [] m = 10 /\ d \in 1..3 -> Some("Eid al-Fitr")
      [] m = 12 /\ d \in 8..13 -> Some("Hajj & Eid al-Adha")
      [] m = 1 /\ d = 10 -> Some("Day of Ashura")
      [] m = 3 /\ d = 12 -> Some("Mawlid al-Nabi")
      [] OTHER -> None

\* C3: for every Hijri date with month in 1..12 and day in 1..30,
\* identify_islamic_events returns exactly the label of the event table, and
\* no label for every date outside its windows.
C3_EventTable ==
    (IsSome(fn_out) /\ IsSome(fn_in.lib)) =>
        /\ Val(fn_out).islamic_event =
              TableLabel(Val(fn_in.lib).month, Val(fn_in.lib).day)
        /\ Val(fn_out).row.islamic_event = Val(fn_out).islamic_event

C3_Witness ==
    /\ IsSome(fn_out)
    /\ IsSome(fn_in.lib)
    /\ Val(fn_in.lib).month = 12
    /\ Val(fn_in.lib).day = 8
    /\ Val(fn_out).islamic_event = Some("Hajj & Eid al-Adha")

PeriodOfDay(d) ==
    IF d \in 1..10 THEN "First 10 Days"
    ELSE IF d \in 11..20 THEN "Middle 10 Days"
    ELSE "Last 10 Days"

EventOfPeriod(p) ==
    CASE p = "First 10 Days" -> "Ramadan (First 10 Days)"
      [] p = "Middle 10 Days" -> "Ramadan (Middle 10 Days)"
      [] p = "Last 10 Days" -> "Ramadan (Last 10 Days)"

\* C5: ramadan_period is set only when is_ramadan is true; it is then the
\* first, middle or last ten days by the Hijri day (1-10, 11-20, 21-30) and
\* names the same sub-period as islamic_event; for a non-Ramadan date it is
\* absent.
C5_RamadanPeriod ==
    IsSome(fn_out) =>
        LET r == Val(fn_out).row
        IN  /\ r.ramadan_period = Val(fn_out).ramadan_period
            /\ IsSome(r.ramadan_period) => r.is_ramadan = Some(TRUE)
            /\ r.is_ramadan = Some(TRUE) =>
                  /\ IsSome(fn_in.lib)
                  /\ r.ramadan_period = Some(PeriodOfDay(Val(fn_in.lib).day))
                  /\ r.islamic_event = Some(EventOfPeriod(Val(r.ramadan_period)))
            /\ r.is_ramadan # Some(TRUE) => r.ramadan_period = None

C5_Witness ==
    /\ IsSome(fn_out)
    /\ IsSome(fn_in.lib)
    /\ Val(fn_in.lib).month = 9
    /\ Val(fn_in.lib).day = 15
    /\ Val(fn_out).row.ramadan_period = Some("Middle 10 Days")
    /\ Val(fn_out).row.islamic_event = Some("Ramadan (Middle 10 Days)")

\* Every order in which the five rules of the chain can be tried.
RuleOrders ==
    {o \in [1..5 -> 1..5] : \A i, j \in 1..5 : o[i] = o[j] => i = j}

\* C6: no Hijri date (month 1..12, day 1..30) satisfies the condition of two
\* event rules, so at most one label is assigned and the label does not
\* depend on the order in which the rules are tried.
C6_RulesExclusive ==
    (IsSome(fn_out) /\ IsSome(fn_in.lib)) =>
        LET h == Val(fn_in.lib)
        IN  /\ Cardinality({r \in 1..5 : EventRuleCond(r, h)}) <= 1
            /\ \A o \in RuleOrders : FirstMatch(o, h) = Val(fn_out).islamic_event

C6_Witness ==
    /\ IsSome(fn_out)
    /\ IsSome(fn_in.lib)
    /\ Val(fn_in.lib).month = 10
    /\ Val(fn_in.lib).day = 3
    /\ Cardinality({r \in 1..5 : EventRuleCond(r, Val(fn_in.lib))}) = 1
    /\ Val(fn_out).islamic_event = Some("Eid al-Fitr")

(***************************************************************************)
(* Properties of translate_text (under SpecTranslate).                     *)
(***************************************************************************)

\* C10: once a label is in the cache (seeded, or stored by a translation that
\* succeeded), a translate_text call for it returns the cached value, makes
\* no remote call and leaves the cache unchanged; hence no label is sent to
\* the remote translator again after a call for it returned, and a seeded
\* label is never sent.
C10_CachedNoRemote ==
    /\ IsSome(last_call) =>
          LET c == Val(last_call)
          IN  (~IsBlank(c.text) /\ Val(c.text) \in DOMAIN c.before) =>
                 /\ ~c.remote
                 /\ c.result = Some(c.before[Val(c.text)])
                 /\ translation_cache = c.before
    /\ \A i, j \in 1..Len(remote_log) :
          (i < j /\ remote_log[i].text = remote_log[j].text) => ~remote_log[i].ok
    /\ \A i \in 1..Len(remote_log) :
          remote_log[i].text \notin DOMAIN create_translation_cache

C10_Witness ==
    /\ IsSome(last_call)
    /\ Val(last_call).text = Some("kafalat yatim")
    /\ "kafalat yatim" \in DOMAIN Val(last_call).before
    /\ ~Val(last_call).remote
    /\ Val(last_call).result = Some("en1")
    /\ Cardinality({i \in 1..Len(remote_log) : remote_log[i].text = "kafalat yatim"}) = 1

(***************************************************************************)
(* Properties of process_donation_data (under Spec).                       *)
(***************************************************************************)

\* The records of the input that pass validation and the complete-years filter.
Survivors == FilterCompleteYears(DropNa(Coerce(ReadCsv(raw))))

\* C1: the i-th record of the enriched output is the i-th surviving record,
\* with its own id, date, amount and category and the Hijri fields computed
\* from its own date.
C1_RecordWise ==
    IsSome(out_file) =>
        \A k \in 1..Len(Survivors) :
            /\ k <= Len(Val(out_file))
            /\ LET o == Val(out_file)[k]
                   s == Survivors[k]
                   h == HijriRow(Val(s.donationdate))
               IN  /\ o.id = s.id
                   /\ o.donationdate = s.donationdate
                   /\ o.amount = s.amount
                   /\ o.donationtype = s.donationtype
                   /\ o.hijri_year = h.hijri_year
                   /\ o.hijri_month = h.hijri_month
                   /\ o.hijri_day = h.hijri_day
                   /\ o.hijri_month_name = h.hijri_month_name
                   /\ o.is_ramadan = h.is_ramadan
                   /\ o.islamic_event = h.islamic_event
                   /\ o.ramadan_period = h.ramadan_period

\* C2: the enriched output has as many records as passed validation and the
\* complete-years filter.
C2_CountPreserved ==
    IsSome(out_file) => Len(Val(out_file)) = Len(Survivors)

\* C4: in every record of the enriched output is_ramadan is true exactly when
\* the Hijri month is 9, and it is false, not absent, when the Hijri date is
\* absent.
C4_RamadanFlag ==
    IsSome(out_file) =>
        \A k \in 1..Len(Val(out_file)) :
            LET o == Val(out_file)[k]
            IN  IF IsSome(o.hijri_month)
                THEN o.is_ramadan = Some(Val(o.hijri_month) = 9)
                ELSE o.is_ramadan = Some(FALSE)

BadDateRows == {k \in 1..Len(raw) : raw[k].donationdate.kind # "date"}
BadAmountRows ==
    {k \in 1..Len(raw) :
        /\ raw[k].donationdate.kind = "date"
        /\ IF raw[k].amount.kind = "num" THEN raw[k].amount.v < 0 ELSE TRUE}
AllYearsComplete ==
    \A k \in 1..Len(raw) :
        raw[k].donationdate.kind = "date" =>
            raw[k].donationdate.date.year \in 2019..2024

\* C8: for N raw rows with all years inside the window, d of them with an
\* unparseable date and a further a of them with a negative or non-numeric
\* amount, the output has N - d - a records and the reported count of
\* removed records is d + a.
C8_CleaningCounts ==
    (IsSome(out_file) /\ AllYearsComplete) =>
        /\ Len(Val(out_file)) =
              Len(raw) - Cardinality(BadDateRows) - Cardinality(BadAmountRows)
        /\ removed = Cardinality(BadDateRows) + Cardinality(BadAmountRows)

\* C9: every record of the enriched output has a valid donation date inside
\* 2019..2024 and a numeric, non-negative amount.
C9_OutputValid ==
    IsSome(out_file) =>
        \A k \in 1..Len(Val(out_file)) :
            LET o == Val(out_file)[k]
            IN  /\ IsSome(o.donationdate)
                /\ IsSome(o.amount)
                /\ Val(o.donationdate).year \in 2019..2024
                /\ Val(o.amount) >= 0

(***************************************************************************)
(* Properties of the translation: failures, the bulk pass, rate limiting.  *)
(***************************************************************************)

\* The remote calls made for one label, in order.
RemoteCallsFor(label) == SelectSeq(remote_log, LAMBDA e : e.text = label)

\* C11 (under SpecTranslate): when the remote translator fails for a label
\* that is not cached, translate_text returns the untranslated label and
\* leaves the cache unchanged; the label stays out of the cache, and a call
\* for a label that is not cached always reaches the remote translator, so
\* the next call for the label retries.
C11_FailureNotCached ==
    /\ IsSome(last_call) =>
          LET c == Val(last_call)
          IN  /\ (c.remote /\ ~remote_log[Len(remote_log)].ok) =>
                    /\ c.result = c.text
                    /\ translation_cache = c.before
              /\ (~IsBlank(c.text) /\ Val(c.text) \notin DOMAIN c.before) => c.remote
    /\ \A i \in 1..Len(remote_log) :
          LET calls == RemoteCallsFor(remote_log[i].text)
          IN  ~calls[Len(calls)].ok => remote_log[i].text \notin DOMAIN translation_cache

C11_Witness ==
    /\ IsSome(last_call)
    /\ Val(last_call).text = Some("bina masjid")
    /\ Val(last_call).remote
    /\ Val(last_call).result = Some("en2")
    /\ Len(RemoteCallsFor("bina masjid")) = 2
    /\ ~RemoteCallsFor("bina masjid")[1].ok

\* The category labels of the written records.
OutputLabels ==
    {Val(Val(out_file)[k].donationtype) :
        k \in {j \in 1..Len(Val(out_file)) : IsSome(Val(out_file)[j].donationtype)}}

\* C12 as stated: in the bulk pass every distinct category label is sent to
\* the remote translator exactly once.
C12_EachLabelOnce ==
    IsSome(out_file) =>
        \A label \in OutputLabels : Len(RemoteCallsFor(label)) = 1

\* C12 as amended: every distinct category label that the seeded cache does
\* not hold is sent exactly once, however many records share it; seeded
\* labels and absent labels are never sent.
C12_EachUnseededLabelOnce ==
    IsSome(out_file) =>
        /\ \A label \in OutputLabels :
              Len(RemoteCallsFor(label)) =
                 (IF label \in DOMAIN create_translation_cache THEN 0 ELSE 1)
        /\ \A i \in 1..Len(remote_log) : remote_log[i].text \in OutputLabels

C12_Witness ==
    /\ IsSome(out_file)
    /\ Len(Val(out_file)) >= 2
    /\ Val(out_file)[1].donationtype = Some("kafalat yatim")
    /\ Val(out_file)[2].donationtype = Some("kafalat yatim")
    /\ Len(RemoteCallsFor("kafalat yatim")) = 1
    /\ ~remote_log[1].ok

\* C13: the fixed delay elapses between every two consecutive remote calls of
\* a run, whether the earlier call succeeded or failed.
C13_DelayBetweenCalls ==
    \A i \in 1..Len(remote_log) : i < Len(remote_log) => remote_log[i].slept

\* C14: a remote failure never aborts the run: the translation pass can
\* always go on and the run never ends in an error once a remote call was
\* made; a written record has the untranslated label when the remote call
\* for its label failed, the cached translation when its label is cached,
\* and no translation when it has no label.
C14_FailureFallsBack ==
    /\ pc = "translate" => ENABLED (TranslateType \/ Save)
    /\ pc = "error" => remote_log = <<>>
    /\ IsSome(out_file) =>
          \A k \in 1..Len(Val(out_file)) :
              LET o == Val(out_file)[k]
              IN  IF ~IsSome(o.donationtype) THEN o.donationtype_en = None
                  ELSE IF Val(o.donationtype) \in DOMAIN create_translation_cache
                  THEN o.donationtype_en = Some(create_translation_cache[Val(o.donationtype)])
                  ELSE /\ Len(RemoteCallsFor(Val(o.donationtype))) = 1
                       /\ IF RemoteCallsFor(Val(o.donationtype))[1].ok
                          THEN /\ o.donationtype_en \in RemoteOutcomes \ {None}
                               /\ o.donationtype_en =
                                     Some(translation_cache[Val(o.donationtype)])
                          ELSE o.donationtype_en = o.donationtype

C14_Witness ==
    /\ pc = "done"
    /\ Len(Val(out_file)) = 3
    /\ \E k \in 1..3 :
          /\ Val(out_file)[k].donationtype = Some("bina masjid")
          /\ Val(out_file)[k].donationtype_en = Some("bina masjid")
    /\ \E k \in 1..3 :
          /\ Val(out_file)[k].donationtype = Some("kafalat yatim")
          /\ Val(out_file)[k].donationtype_en = Some("en1")
    /\ \E k \in 1..3 : ~IsSome(Val(out_file)[k].donationtype)

(***************************************************************************)
(* Properties of the aggregators (under SpecMetrics and SpecCompare).      *)
(***************************************************************************)

KpisComputed == pc \in {"service_kpis", "dashboard_kpis"}

\* C15: calculate_kpis of an empty record collection returns a structure whose
\* every field is 0, in the metrics service and in the dashboard application.
C15_EmptyAllZero ==
    (KpisComputed /\ fn_in = <<>>) =>
        \A f \in DOMAIN Val(fn_out) : Val(fn_out)[f] = Zero

\* C16: every field of every calculate_kpis result is a finite number, never
\* NaN: a statistic whose divisor is zero is reported as 0.
C16_KpisFinite ==
    KpisComputed => \A f \in DOMAIN Val(fn_out) : ~Val(fn_out)[f].nan

TrackedSet == {TrackedMetrics[i] : i \in 1..Len(TrackedMetrics)}

\* The percentage delta as specified: relative to set A's value, 0 when that
\* value is 0.
SpecPercentage(a, b) == IF RIsZero(a) THEN Zero ELSE PercentChange(a, b)

\* The rows of the dashboard's comparison table that report the metric.
TableRows(table, metric) == SelectSeq(table, LAMBDA e : e.metric = metric)

\* C17: for every tracked metric compare_periods reports absolute delta
\* B - A and percentage delta (B - A) / A x 100, which is 0 when A is 0; the
\* dashboard's table reports that percentage, printed with one decimal.
C17_Deltas ==
    /\ pc = "service_compared" =>
          \A key \in TrackedSet :
              LET a == Val(fn_out).period1.kpis[key]
                  b == Val(fn_out).period2.kpis[key]
                  e == Val(fn_out).changes[key]
              IN  /\ e.absolute = RSub(b, a)
                  /\ e.percentage = SpecPercentage(a, b)
    /\ pc = "dashboard_compared" =>
          \A i \in 1..Len(TrackedMetrics) :
              LET a == Val(fn_out).period1_values[i]
                  b == Val(fn_out).period2_values[i]
                  rows == TableRows(Val(fn_out).changes, TrackedMetrics[i])
              IN  /\ Len(rows) = 1
                  /\ rows[1].change = FormatFixed(SpecPercentage(a, b), 1)

\* C18: whatever the two sets are, compare_periods returns the two labeled
\* KPI blocks, each the calculate_kpis of its own set, and a delta entry for
\* every one of the five tracked metrics.
C18_CompleteComparison ==
    /\ pc = "service_compared" =>
          /\ Val(fn_out).period1 = [label |-> "Period 1", kpis |-> calculate_kpis(fn_in.df1)]
          /\ Val(fn_out).period2 = [label |-> "Period 2", kpis |-> calculate_kpis(fn_in.df2)]
          /\ DOMAIN Val(fn_out).changes = TrackedSet
    /\ pc = "dashboard_compared" =>
          /\ \A i \in 1..Len(TrackedMetrics) :
                /\ Val(fn_out).period1_values[i] =
                      dashboard_calculate_kpis(fn_in.df1)[TrackedMetrics[i]]
                /\ Val(fn_out).period2_values[i] =
                      dashboard_calculate_kpis(fn_in.df2)[TrackedMetrics[i]]
                /\ Len(TableRows(Val(fn_out).changes, TrackedMetrics[i])) = 1

\* The calendar periods present in the input and the sum of each.
PeriodsPresent(period) == {PeriodOf(fn_in[k], period) : k \in 1..Len(fn_in)}

RECURSIVE SumOver(_, _)
SumOver(K, amount) ==
    IF K = {} THEN 0
    ELSE LET k == CHOOSE j \in K : TRUE IN amount[k] + SumOver(K \ {k}, amount)

PeriodSum(p, period) ==
    SumOver({k \in 1..Len(fn_in) : PeriodOf(fn_in[k], period) = p}, Amounts(fn_in))

\* C19: calculate_growth_rate by month or year returns 0 when fewer than two
\* periods are present or the previous period's sum is 0, and otherwise
\* (last - previous) / previous x 100 for the two chronologically last
\* periods, in both implementations.
C19_GrowthRate ==
    (pc \in {"service_growth", "dashboard_growth"} /\ Val(fn_out).period \in {"month", "year"}) =>
        LET period == Val(fn_out).period
            rate == Val(fn_out).rate
            P == PeriodsPresent(period)
        IN  /\ ~rate.nan
            /\ Cardinality(P) < 2 => rate = Zero
            /\ Cardinality(P) >= 2 =>
                  \E last \in P, previous \in P :
                      /\ \A q \in P \ {last} : PeriodBefore(q, last)
                      /\ previous # last
                      /\ \A q \in P \ {last, previous} : PeriodBefore(q, previous)
                      /\ PeriodSum(previous, period) = 0 => rate = Zero
                      /\ PeriodSum(previous, period) # 0 =>
                            rate.n * PeriodSum(previous, period) =
                               (PeriodSum(last, period) - PeriodSum(previous, period))
                                  * 100 * rate.d

\* Three months present, given out of order; the last two sum to 500 and 750.
C19_Witness ==
    /\ pc = "service_growth"
    /\ Val(fn_out).period = "month"
    /\ Cardinality(PeriodsPresent("month")) = 3
    /\ PeriodOf(fn_in[1], "month") = <<2021, 6>>
    /\ Val(fn_out).rate = Num(50)

\* The donors of the input, and per donor the number and the total of their
\* donations.
Donors == {Val(fn_in[k].id) : k \in {j \in 1..Len(fn_in) : IsSome(fn_in[j].id)}}
DonationsOf(d) == {k \in 1..Len(fn_in) : fn_in[k].id = Some(d)}
CountOf(d) == Cardinality(DonationsOf(d))
TotalOf(d) == SumOver(DonationsOf(d), Amounts(fn_in))

\* The k-th smallest donation count over the donors.
CountRank(k) ==
    CHOOSE x \in {CountOf(d) : d \in Donors} :
        /\ Cardinality({d \in Donors : CountOf(d) < x}) < k
        /\ k <= Cardinality({d \in Donors : CountOf(d) <= x})

\* C20: calculate_donor_statistics reports the number of distinct donors, of
\* donors with more than one donation and of donors with exactly one, the
\* mean and median number of donations per donor, and the largest total and
\* the largest count over donors; repeat + one-time = total for every input.
\* (The fields an empty input returns are the subject of C21.)
C20_DonorStatistics ==
    pc = "donor_statistics" =>
        LET o == Val(fn_out)
            n == Cardinality(Donors)
        IN  /\ ~o.repeat_donors.nan /\ ~o.one_time_donors.nan /\ ~o.total_donors.nan
            /\ o.repeat_donors.d = 1 /\ o.one_time_donors.d = 1 /\ o.total_donors.d = 1
            /\ o.repeat_donors.n + o.one_time_donors.n = o.total_donors.n
            /\ o.total_donors.n = n
            /\ o.repeat_donors.n = Cardinality({d \in Donors : CountOf(d) > 1})
            /\ o.one_time_donors.n = Cardinality({d \in Donors : CountOf(d) = 1})
            /\ n > 0 =>
                  /\ ~o.avg_donations_per_donor.nan
                  /\ o.avg_donations_per_donor.n * n =
                        Cardinality(UNION {DonationsOf(d) : d \in Donors})
                           * o.avg_donations_per_donor.d
                  /\ ~o.median_donations_per_donor.nan
                  /\ 2 * o.median_donations_per_donor.n =
                        (CountRank((n + 1) \div 2) + CountRank(n \div 2 + 1))
                           * o.median_donations_per_donor.d
                  /\ o.top_donor_amount \in {Num(TotalOf(d)) : d \in Donors}
                  /\ \A d \in Donors : TotalOf(d) <= o.top_donor_amount.n
                  /\ o.top_donor_count \in {Num(CountOf(d)) : d \in Donors}
                  /\ \A d \in Donors : CountOf(d) <= o.top_donor_count.n

\* One donor with two donations, one with a single donation.
C20_Witness ==
    /\ pc = "donor_statistics"
    /\ Len(fn_in) = 3
    /\ Val(fn_out).total_donors = Num(2)
    /\ Val(fn_out).repeat_donors = Num(1)
    /\ Val(fn_out).one_time_donors = Num(1)
    /\ Val(fn_out).median_donations_per_donor = Rat(3, 2)

\* The fields calculate_donor_statistics returns for a non-empty input.
DonorStatFields ==
    {"total_donors", "repeat_donors", "one_time_donors", "avg_donations_per_donor",
     "top_donor_amount", "top_donor_count", "median_donations_per_donor"}

\* C21: calculate_donor_statistics of an empty record collection returns the
\* fields of a non-empty result, mean and median donations per donor
\* included, every one equal to 0.
C21_EmptyDonorStatistics ==
    (pc = "donor_statistics" /\ fn_in = <<>>) =>
        /\ DOMAIN Val(fn_out) = DonorStatFields
        /\ \A f \in DOMAIN Val(fn_out) : Val(fn_out)[f] = Zero

(***************************************************************************)
(* Properties of the load path (under SpecLoad).                           *)
(***************************************************************************)

Loaded == pc \in {"service_loaded", "dashboard_loaded"}

\* A raw row is valid when its date parses and its amount is a number that
\* is not negative.
ValidRaw(r) ==
    /\ r.donationdate.kind = "date"
    /\ r.amount.kind = "num"
    /\ r.amount.v >= 0

Reported(about) ==
    \E i \in 1..Len(Val(fn_out).messages) : Val(fn_out).messages[i].about = about

\* C22: with the processed file missing and the raw file present the load
\* path returns the valid raw records, is_ramadan false and the event and
\* Hijri month fields absent on each, and flags the raw-only mode; with both
\* files missing it reports an error and names the regenerating command.
C22_RawFallback ==
    /\ (Loaded /\ fn_in.processed = "missing" /\ fn_in.raw = "ok") =>
          LET valid == SelectSeq(fn_in.source, ValidRaw)
              rows == Val(fn_out).df.rows
          IN  /\ Len(rows) = Len(valid)
              /\ \A k \in 1..Len(rows) :
                    /\ k <= Len(valid)
                    /\ rows[k].id = Some(valid[k].id)
                    /\ rows[k].donationdate = Some(valid[k].donationdate.date)
                    /\ rows[k].amount = Some(valid[k].amount.v)
                    /\ rows[k].donationtype = valid[k].donationtype
                    /\ rows[k].is_ramadan = Some(FALSE)
                    /\ rows[k].islamic_event = None
                    /\ rows[k].hijri_month = None
                    /\ rows[k].hijri_month_name = None
              /\ Reported("raw_only")
    /\ (Loaded /\ fn_in.processed = "missing" /\ fn_in.raw = "missing") =>
          /\ Val(fn_out).df.rows = <<>>
          /\ Reported("no_data_file") \/ Reported("error_loading")
          /\ Reported("run_preprocess")

\* A data source is usable when its file can be read and holds a valid record.
ProcessedUsable == fn_in.processed = "ok"
RawUsable == fn_in.raw = "ok" /\ \E k \in 1..Len(fn_in.source) : ValidRaw(fn_in.source[k])

\* C23: whenever the processed file or the raw file is usable, loading
\* returns a dataset with at least one record, taken from the raw file when
\* the processed file cannot be used.
C23_DegradedOverFailure ==
    (Loaded /\ (ProcessedUsable \/ RawUsable)) =>
        /\ Val(fn_out).df.rows # <<>>
        /\ ~ProcessedUsable => Val(fn_out).df.rows = FallbackRows(fn_in.source)

(***************************************************************************)
(* Further properties of the pipeline (under Spec) and of translate_text   *)
(* (under SpecTranslate).                                                  *)
(***************************************************************************)

\* The Hijri dictionaries of all surviving rows, taken in one pass.
EnrichedWhole(rows) == [k \in 1..Len(rows) |-> HijriRow(Val(rows[k].donationdate))]

\* C26: the enriched records do not depend on batch_size: while the loop
\* runs, hijri_data is the enrichment of the rows before batch_i, and after
\* it the dataframe is a function of the input alone, whatever batch_size is.
C26_BatchSizeIrrelevant ==
    /\ pc = "enrich" =>
          hijri_data = SubSeq(EnrichedWhole(df), 1, Min(batch_i, Len(df)))
    /\ pc \in {"translate", "saved", "done"} =>
          /\ hijri_data = EnrichedWhole(PipelineRows(raw))
          /\ df = ConcatAxis1(PipelineRows(raw), EnrichedWhole(PipelineRows(raw)),
                              union_sorted)

\* Three surviving rows enriched in batches of two: a full batch and a rest.
C26_Witness ==
    /\ pc = "translate"
    /\ batch_size = 2
    /\ Len(hijri_data) = 3
    /\ batch_i = 4

\* The order of the steps of one run.
StepOrder ==
    {<<"start", "loaded">>, <<"loaded", "cleaned">>, <<"cleaned", "enrich">>,
     <<"enrich", "translate">>, <<"translate", "saved">>, <<"saved", "done">>,
     <<"start", "error">>, <<"enrich", "error">>}

\* C27: the steps of a run follow load, clean, filter, enrich, translate,
\* persist; the output file is written at most once, only when every
\* surviving row is enriched and every distinct category has been looked up,
\* and a run that ends in an error has written no file.
C27_StepOrder ==
    /\ [](/\ IsSome(out_file) =>
                /\ pc \in {"saved", "done"}
                /\ Len(hijri_data) = Len(PipelineRows(raw))
                /\ type_idx = Len(unique_types)
                /\ \A k \in 1..Len(unique_types) :
                      IsSome(unique_types[k]) =>
                         \/ Val(unique_types[k]) \in DOMAIN create_translation_cache
                         \/ RemoteCallsFor(Val(unique_types[k])) # <<>>
          /\ pc = "error" => out_file = None
          /\ ~input_exists => pc \in {"start", "error"})
    /\ [][/\ pc' # pc => <<pc, pc'>> \in StepOrder
          /\ IsSome(out_file) => out_file' = out_file]_vars

C27_Witness ==
    /\ pc = "done"
    /\ IsSome(out_file)
    /\ Len(Val(out_file)) >= 2
    /\ Len(remote_log) = 2

\* C28: a translate_text call never removes or changes an entry of the cache;
\* the cache changes only by gaining the entry of a label that was missing
\* and whose remote translation succeeded, and a call with an empty, absent
\* or cached label leaves it as it was.
C28_CacheMonotonic ==
    [][/\ \A t \in DOMAIN translation_cache :
             t \in DOMAIN translation_cache' /\ translation_cache'[t] = translation_cache[t]
       /\ last_call' # last_call =>
             LET c == Val(last_call')
             IN  /\ (IsBlank(c.text) \/ Val(c.text) \in DOMAIN translation_cache) =>
                       translation_cache' = translation_cache
                 /\ translation_cache' # translation_cache =>
                       /\ ~IsBlank(c.text)
                       /\ Val(c.text) \notin DOMAIN translation_cache
                       /\ DOMAIN translation_cache' =
                             DOMAIN translation_cache \cup {Val(c.text)}
                       /\ Len(remote_log') = Len(remote_log) + 1
                       /\ remote_log'[Len(remote_log')].text = Val(c.text)
                       /\ remote_log'[Len(remote_log')].ok
                       /\ Some(translation_cache'[Val(c.text)]) \in RemoteOutcomes]_vars

\* Two labels stored after the seeds, then a call that hits one of them.
C28_Witness ==
    /\ IsSome(last_call)
    /\ Val(last_call).n = 3
    /\ ~Val(last_call).remote
    /\ Val(last_call).text = Some("kafalat yatim")
    /\ DOMAIN translation_cache =
          DOMAIN create_translation_cache \cup {"kafalat yatim", "bina masjid"}

\* C29: on every record collection the load path returns, the Ramadan subset
\* and the non-Ramadan subset of calculate_kpis partition the records: each
\* record is in exactly one of them and the two counts add up to the total.
C29_RamadanPartition ==
    Loaded =>
        LET rows == Val(fn_out).df.rows
        IN  /\ \A k \in 1..Len(rows) :
                  (rows[k].is_ramadan = Some(TRUE)) # (rows[k].is_ramadan = Some(FALSE))
            /\ Len(RamadanRows(rows)) + Len(NonRamadanRows(rows)) = Len(rows)
            /\ Len(RamadanRows(rows)) <= Len(rows)

\* C30: when the input file exists and no row survives the cleaning and the
\* year filter, the run does not fail and ends with an output of zero records.
C30_EmptyRunCompletes ==
    (input_exists /\ PipelineRows(raw) = <<>>) =>
        /\ pc # "error"
        /\ pc = "done" => out_file = Some(<<>>)

====
